---- MODULE Spec2Model ----
(***************************************************************************)
(* Delivery-versus-payment settlement client (DvPEngine) over a token      *)
(* ledger.  The engine (src/src/dvp-engine.ts) only assembles directives   *)
(* and submits them; the ledger's token program executes them.  The        *)
(* engine's operations are modelled from its source; the token program,    *)
(* which is external to the repository, is modelled from the behaviour     *)
(* spec.md states for it (sections 3, 4.3-4.5, 7) and is kept in the       *)
(* Process... operators.                                                   *)
(***************************************************************************)
EXTENDS Integers, Sequences, FiniteSets, TLC

\* Largest human-scale quantity (bonds, whole currency units) a caller passes
\* and the largest supply minted of each asset.
MaxAmount == 2

-----------------------------------------------------------------------------
\* Identities, programs, assets

settlementAgent == "agent"
Issuer == "issuer"
Investor == "investor"
Parties == {Issuer, Investor}
NoKey == "none"

TOKEN_2022_PROGRAM_ID == "token2022"
TOKEN_PROGRAM_ID == "token"
Programs == {TOKEN_2022_PROGRAM_ID, TOKEN_PROGRAM_ID}

BondMint == "bond"
UsdcMint == "usdc"
Mints == {BondMint, UsdcMint}

\* SOL airdropped to each party by the demo, and lamports per SOL.
AirdropSol == 2
LAMPORTS_PER_SOL == 1000000000

\* The literals of executeDvP: bond leg precision, currency precision and scale.
BondLegDecimals == 0
UsdcLegDecimals == 6
UsdcLegScale == 1000000

\* Precisions a caller may configure for the bond, and the precision a caller
\* passes to delegateAuthority for an account of the given asset (the demo's:
\* 0 for the bond, 6 for the currency).
ConfigDecimals == {0, 1}
DelegateDecimals(mint) == IF mint = "usdc" THEN {6} ELSE {0}

RECURSIVE Pow10(_)
Pow10(n) == IF n = 0 THEN 1 ELSE 10 * Pow10(n - 1)

\* Text is a sequence of characters; "" is <<>>.  An optional text is <<>>
\* when absent and <<text>> when present.
Digits == <<"0", "1", "2", "3", "4", "5", "6", "7", "8", "9">>

\* Number.prototype.toString of a natural number
RECURSIVE NumberToString(_)
NumberToString(n) ==
  IF n < 10 THEN <<Digits[n + 1]>>
  ELSE NumberToString(n \div 10) \o <<Digits[(n % 10) + 1]>>

RECURSIVE PadStart(_, _)
PadStart(text, width) ==
  IF Len(text) >= width THEN text ELSE PadStart(<<"0">> \o text, width)

\* Date.prototype.toISOString of a date at midnight UTC
toISOString(date) ==
  PadStart(NumberToString(date.year), 4) \o <<"-">>
    \o PadStart(NumberToString(date.month), 2) \o <<"-">>
    \o PadStart(NumberToString(date.day), 2)
    \o <<"T", "0", "0", ":", "0", "0", ":", "0", "0", ".", "0", "0", "0", "Z">>

\* value || ""
OrEmpty(optional) ==
  IF optional = <<>> THEN <<>>
  ELSE IF optional[1] = <<>> THEN <<>> ELSE optional[1]

\* if (value), for a text
Truthy(value) == value # <<>>

FieldCouponRate == <<"c", "o", "u", "p", "o", "n", "R", "a", "t", "e">>
FieldMaturityDate == <<"m", "a", "t", "u", "r", "i", "t", "y", "D", "a", "t", "e">>
FieldIsin == <<"i", "s", "i", "n">>

\* Sizes in bytes of a TLV entry's type and length
TYPE_SIZE == 2
LENGTH_SIZE == 2

\* Length of the packed metadata record: update authority and mint (32 bytes
\* each), three length-prefixed texts, and the length-prefixed list of
\* length-prefixed key/value pairs.
RECURSIVE PairsLength(_)
PairsLength(pairs) ==
  IF pairs = <<>> THEN 0
  ELSE 4 + Len(Head(pairs)[1]) + 4 + Len(Head(pairs)[2])
         + PairsLength(Tail(pairs))

packLength(metadata) ==
  32 + 32 + (4 + Len(metadata.name)) + (4 + Len(metadata.symbol))
    + (4 + Len(metadata.uri)) + 4 + PairsLength(metadata.additionalMetadata)

\* Size of an asset account holding the given fixed-size extensions
ExtensionLength(extension) ==
  IF extension = "MetadataPointer" THEN 64 ELSE 1

RECURSIVE ExtensionsLength(_)
ExtensionsLength(extensions) ==
  IF extensions = {} THEN 0
  ELSE LET e == CHOOSE x \in extensions : TRUE IN
       TYPE_SIZE + LENGTH_SIZE + ExtensionLength(e)
         + ExtensionsLength(extensions \ {e})

getMintLen(extensions) == 165 + 1 + ExtensionsLength(extensions)

\* The network's minimum balance for an account of the given size
getMinimumBalanceForRentExemption(space) == (128 + space) * 6960

\* Canonical holding-account address: a function of owner, program and asset.
getAssociatedTokenAddress(mint, owner, programId) ==
  [mint |-> mint, owner |-> owner, program |-> programId]

\* The holding accounts of the model: each party's canonical account of the
\* bond (Token-2022) and of the currency (standard token program).
Addr ==
  {getAssociatedTokenAddress(BondMint, p, TOKEN_2022_PROGRAM_ID) : p \in Parties}
  \cup {getAssociatedTokenAddress(UsdcMint, p, TOKEN_PROGRAM_ID) : p \in Parties}

-----------------------------------------------------------------------------
\* Ledger records

\* An asset account: allocated (space, lamports, owning program), then its
\* extensions, then the mint itself (exists), then its metadata.
NoMint ==
  [allocated |-> FALSE, space |-> 0, lamports |-> 0,
   exists |-> FALSE, decimals |-> 0, program |-> TOKEN_2022_PROGRAM_ID,
   mintAuthority |-> NoKey, freezeAuthority |-> NoKey, defaultFrozen |-> FALSE,
   extensions |-> {}, pointerAuthority |-> NoKey, pointerAddress |-> NoKey,
   hasMetadata |-> FALSE, updateAuthority |-> NoKey,
   name |-> <<>>, symbol |-> <<>>, uri |-> <<>>, additionalMetadata |-> <<>>]

NoAccount ==
  [exists |-> FALSE, frozen |-> FALSE, amount |-> 0,
   delegate |-> NoKey, delegated |-> 0]

\* The settlement currency as the demo sets it up: precision 6, standard token
\* program, no freeze authority.
MockUSDCMint ==
  [NoMint EXCEPT !.allocated = TRUE, !.space = 82,
                 !.lamports = getMinimumBalanceForRentExemption(82),
                 !.exists = TRUE, !.decimals = 6,
                 !.program = TOKEN_PROGRAM_ID, !.mintAuthority = Issuer]

Rejected(st) == [ok |-> FALSE, st |-> st]
Committed(st) == [ok |-> TRUE, st |-> st]

-----------------------------------------------------------------------------
\* The external token program: one operator per directive.  Each takes the
\* ledger state st = [mints, accounts], the directive and the set of signers,
\* and yields [ok, st].

\* System program: allocate a new account, funded by the payer.
ProcessCreateAccount(st, ix, signers) ==
  IF /\ ~st.mints[ix.newAccount].allocated
     /\ ix.from \in signers /\ ix.newAccount \in signers
     /\ ix.lamports >= getMinimumBalanceForRentExemption(ix.space)
     /\ st.lamports[ix.from] >= ix.lamports
  THEN Committed([st EXCEPT
         !.mints[ix.newAccount] =
            [NoMint EXCEPT !.allocated = TRUE, !.space = ix.space,
                           !.lamports = ix.lamports, !.program = ix.program],
         !.lamports[ix.from] = @ - ix.lamports])
  ELSE Rejected(st)

\* An extension is initialized on an allocated account before the mint is.
ExtensionInitializable(st, ix, extension) ==
  /\ st.mints[ix.mint].allocated
  /\ st.mints[ix.mint].program = ix.program
  /\ ~st.mints[ix.mint].exists
  /\ extension \notin st.mints[ix.mint].extensions

ProcessInitializeMetadataPointer(st, ix, signers) ==
  IF ExtensionInitializable(st, ix, "MetadataPointer")
  THEN Committed([st EXCEPT
         !.mints[ix.mint].extensions = @ \cup {"MetadataPointer"},
         !.mints[ix.mint].pointerAuthority = ix.authority,
         !.mints[ix.mint].pointerAddress = ix.metadataAddress])
  ELSE Rejected(st)

ProcessInitializeDefaultAccountState(st, ix, signers) ==
  IF ExtensionInitializable(st, ix, "DefaultAccountState")
  THEN Committed([st EXCEPT
         !.mints[ix.mint].extensions = @ \cup {"DefaultAccountState"},
         !.mints[ix.mint].defaultFrozen = (ix.state = "frozen")])
  ELSE Rejected(st)

ProcessInitializeMint(st, ix, signers) ==
  LET m == st.mints[ix.mint] IN
  IF /\ m.allocated /\ ~m.exists
     /\ m.program = ix.program
     /\ m.space = getMintLen(m.extensions)
     /\ m.defaultFrozen => ix.freezeAuthority # NoKey
  THEN Committed([st EXCEPT !.mints[ix.mint] =
         [m EXCEPT !.exists = TRUE, !.decimals = ix.decimals,
                   !.mintAuthority = ix.mintAuthority,
                   !.freezeAuthority = ix.freezeAuthority]])
  ELSE Rejected(st)

MetadataOf(m) ==
  [name |-> m.name, symbol |-> m.symbol, uri |-> m.uri,
   additionalMetadata |-> m.additionalMetadata]

\* The account can hold size bytes for ever with the balance it has.
Funded(m, size) == m.lamports >= getMinimumBalanceForRentExemption(size)

\* Metadata initialization: authorised by the mint authority, stored in the
\* mint account itself, which grows by the record and its TLV header.
ProcessInitializeMetadata(st, ix, signers) ==
  LET m == st.mints[ix.mint]
      space == m.space + TYPE_SIZE + LENGTH_SIZE
                 + packLength([name |-> ix.name, symbol |-> ix.symbol,
                               uri |-> ix.uri, additionalMetadata |-> <<>>])
  IN
  IF /\ m.exists /\ ~m.hasMetadata
     /\ m.program = ix.program
     /\ "MetadataPointer" \in m.extensions
     /\ m.pointerAddress = ix.metadata /\ ix.metadata = ix.mint
     /\ m.mintAuthority = ix.mintAuthority /\ ix.mintAuthority \in signers
     /\ Funded(m, space)
  THEN Committed([st EXCEPT !.mints[ix.mint] =
         [m EXCEPT !.hasMetadata = TRUE, !.space = space,
                   !.updateAuthority = ix.updateAuthority,
                   !.name = ix.name, !.symbol = ix.symbol, !.uri = ix.uri]])
  ELSE Rejected(st)

\* The list with the key's value set: replaced in place, or appended.
SetField(pairs, field, value) ==
  IF \E i \in 1..Len(pairs) : pairs[i][1] = field
  THEN [i \in 1..Len(pairs) |->
          IF pairs[i][1] = field THEN <<field, value>> ELSE pairs[i]]
  ELSE Append(pairs, <<field, value>>)

\* Field write: authorised by the update authority; the account is resized
\* to the new record.
ProcessUpdateField(st, ix, signers) ==
  LET m == st.mints[ix.metadata]
      pairs == SetField(m.additionalMetadata, ix.field, ix.value)
      space == m.space - packLength(MetadataOf(m))
                 + packLength([MetadataOf(m) EXCEPT !.additionalMetadata = pairs])
  IN
  IF /\ m.hasMetadata
     /\ m.program = ix.program
     /\ m.updateAuthority # NoKey
     /\ m.updateAuthority = ix.updateAuthority
     /\ ix.updateAuthority \in signers
     /\ Funded(m, space)
  THEN Committed([st EXCEPT !.mints[ix.metadata] =
         [m EXCEPT !.additionalMetadata = pairs, !.space = space]])
  ELSE Rejected(st)

ProcessCreateAssociatedAccount(st, ix, signers) ==
  LET m == st.mints[ix.address.mint] IN
  IF /\ m.exists
     /\ m.program = ix.address.program
     /\ ~st.accounts[ix.address].exists
     /\ ix.payer \in signers
  THEN Committed([st EXCEPT !.accounts[ix.address] =
         [NoAccount EXCEPT !.exists = TRUE, !.frozen = m.defaultFrozen]])
  ELSE Rejected(st)

GatingAuthorised(st, ix, signers) ==
  /\ st.accounts[ix.account].exists
  /\ ix.account.mint = ix.mint
  /\ ix.account.program = ix.program
  /\ st.mints[ix.mint].exists
  /\ st.mints[ix.mint].freezeAuthority # NoKey
  /\ st.mints[ix.mint].freezeAuthority = ix.authority
  /\ ix.authority \in signers

ProcessThawAccount(st, ix, signers) ==
  IF GatingAuthorised(st, ix, signers) /\ st.accounts[ix.account].frozen
  THEN Committed([st EXCEPT !.accounts[ix.account].frozen = FALSE])
  ELSE Rejected(st)

ProcessFreezeAccount(st, ix, signers) ==
  IF GatingAuthorised(st, ix, signers) /\ ~st.accounts[ix.account].frozen
  THEN Committed([st EXCEPT !.accounts[ix.account].frozen = TRUE])
  ELSE Rejected(st)

ProcessApprove(st, ix, signers) ==
  LET a == st.accounts[ix.account] IN
  IF /\ a.exists
     /\ ix.account.program = ix.program
     /\ ~a.frozen
     /\ ix.owner = ix.account.owner
     /\ ix.owner \in signers
  THEN Committed([st EXCEPT !.accounts[ix.account].delegate = ix.delegate,
                            !.accounts[ix.account].delegated = ix.amount])
  ELSE Rejected(st)

ProcessMintTo(st, ix, signers) ==
  LET a == st.accounts[ix.destination] IN
  IF /\ st.mints[ix.mint].exists
     /\ a.exists
     /\ ix.destination.mint = ix.mint
     /\ ix.destination.program = ix.program
     /\ ~a.frozen
     /\ st.mints[ix.mint].mintAuthority = ix.authority
     /\ ix.authority \in signers
  THEN Committed([st EXCEPT !.accounts[ix.destination].amount = @ + ix.amount])
  ELSE Rejected(st)

\* Transfer with the precision check.  The authority is either the account's
\* delegate (bounded by, and consuming, the delegated ceiling) or its owner.
ProcessTransferChecked(st, ix, signers) ==
  LET src == st.accounts[ix.source]
      dst == st.accounts[ix.destination]
      m == st.mints[ix.mint]
      byDelegate == src.delegate # NoKey /\ src.delegate = ix.authority
      authorised ==
        IF byDelegate
        THEN ix.authority \in signers /\ src.delegated >= ix.amount
        ELSE ix.authority = ix.source.owner /\ ix.authority \in signers
      left == src.delegated - ix.amount
      debited ==
        [src EXCEPT !.amount = @ - ix.amount,
                    !.delegated = IF byDelegate THEN left ELSE @,
                    !.delegate = IF byDelegate /\ left = 0 THEN NoKey ELSE @]
  IN
  IF /\ src.exists /\ dst.exists
     /\ ix.source.program = ix.program /\ ix.destination.program = ix.program
     /\ ~src.frozen /\ ~dst.frozen
     /\ src.amount >= ix.amount
     /\ ix.source.mint = ix.mint /\ ix.destination.mint = ix.mint
     /\ m.exists /\ m.decimals = ix.decimals
     /\ authorised
  THEN IF ix.source = ix.destination
       THEN Committed(st)
       ELSE Committed([st EXCEPT
              !.accounts[ix.source] = debited,
              !.accounts[ix.destination].amount = @ + ix.amount])
  ELSE Rejected(st)

ProcessInstruction(st, ix, signers) ==
  CASE ix.type = "createAccount" -> ProcessCreateAccount(st, ix, signers)
    [] ix.type = "initializeMetadataPointer" ->
         ProcessInitializeMetadataPointer(st, ix, signers)
    [] ix.type = "initializeDefaultAccountState" ->
         ProcessInitializeDefaultAccountState(st, ix, signers)
    [] ix.type = "initializeMint" -> ProcessInitializeMint(st, ix, signers)
    [] ix.type = "initializeMetadata" ->
         ProcessInitializeMetadata(st, ix, signers)
    [] ix.type = "updateField" -> ProcessUpdateField(st, ix, signers)
    [] ix.type = "createAssociatedAccount" ->
         ProcessCreateAssociatedAccount(st, ix, signers)
    [] ix.type = "thawAccount" -> ProcessThawAccount(st, ix, signers)
    [] ix.type = "freezeAccount" -> ProcessFreezeAccount(st, ix, signers)
    [] ix.type = "approve" -> ProcessApprove(st, ix, signers)
    [] ix.type = "mintTo" -> ProcessMintTo(st, ix, signers)
    [] ix.type = "transferChecked" -> ProcessTransferChecked(st, ix, signers)
    [] OTHER -> Rejected(st)

\* A transaction runs its directives in order on a working copy of the ledger
\* and commits the copy only if every directive succeeded.
RECURSIVE RunInstructions(_, _, _)
RunInstructions(st, tx, signers) ==
  IF tx = <<>>
  THEN Committed(st)
  ELSE LET r == ProcessInstruction(st, Head(tx), signers) IN
       IF r.ok THEN RunInstructions(r.st, Tail(tx), signers) ELSE r

ProcessTransaction(st, tx, signers) ==
  LET r == RunInstructions(st, tx, signers) IN
  IF r.ok THEN r ELSE Rejected(st)

-----------------------------------------------------------------------------
\* State

VARIABLES
  mints,      \* ledger: asset records, by asset address
  accounts,   \* ledger: holding accounts, by canonical address
  lamports,   \* ledger: native balance of each party
  wl,         \* the whitelist call in progress (position and locals), or idle
  lastCall,   \* the call last started: operation and, once it has ended
              \* (done), its outcome and what it sent
  grant,      \* per account: whether a delegateAuthority on it has succeeded,
              \* and the ceiling that call approved less the total that
              \* committed settlements have moved out since
  removed     \* accounts frozen by removeFromWhitelist and not thawed since

vars == <<mints, accounts, lamports, wl, lastCall, grant, removed>>

Ledger == [mints |-> mints, accounts |-> accounts, lamports |-> lamports]

-----------------------------------------------------------------------------
\* Submission: sendAndConfirmTransaction / the token helpers.  A submission
\* either reaches the ledger and is processed (committed or rejected), or is
\* lost on the network (net = FALSE); in both failing cases the caller gets an
\* error and the ledger is unchanged.

Submit(st, sub, net) ==
  IF net THEN ProcessTransaction(st, sub.tx, sub.signers) ELSE Rejected(st)

\* Variant: a failed submission is sent once more before giving up.
RECURSIVE SubmitAllRetrying(_, _, _)
SubmitAllRetrying(st, subs, net) ==
  IF subs = <<>>
  THEN [ok |-> TRUE, st |-> st, sent |-> <<>>]
  ELSE LET r == Submit(st, Head(subs), net)
           entry == [tx |-> Head(subs).tx, signers |-> Head(subs).signers,
                     outcome |-> IF r.ok THEN "committed"
                                 ELSE IF net THEN "rejected" ELSE "lost"]
       IN IF r.ok
          THEN LET rest == SubmitAllRetrying(r.st, Tail(subs), net) IN
               [ok |-> rest.ok, st |-> rest.st, sent |-> <<entry>> \o rest.sent]
          ELSE [ok |-> FALSE, st |-> st, sent |-> <<entry, entry>>]

\* The submissions of one call in order: the first failure throws, so nothing
\* after it is sent.  sent lists what was sent, each with its outcome:
\* "committed", "rejected" (by the ledger) or "lost" (on the network).
RECURSIVE SubmitAll(_, _, _)
SubmitAll(st, subs, net) ==
  IF subs = <<>>
  THEN [ok |-> TRUE, st |-> st, sent |-> <<>>]
  ELSE LET r == Submit(st, Head(subs), net)
           entry == [tx |-> Head(subs).tx, signers |-> Head(subs).signers,
                     outcome |-> IF r.ok THEN "committed"
                                 ELSE IF net THEN "rejected" ELSE "lost"]
       IN IF r.ok
          THEN LET rest == SubmitAll(r.st, Tail(subs), net) IN
               [ok |-> rest.ok, st |-> rest.st, sent |-> <<entry>> \o rest.sent]
          ELSE [ok |-> FALSE, st |-> st, sent |-> <<entry>>]

\* Who a directive names as its authorising identity.
IxAuthority(ix) ==
  CASE ix.type = "createAssociatedAccount" -> ix.payer
    [] ix.type = "approve" -> ix.owner
    [] ix.type = "createAccount" -> ix.from
    [] ix.type = "initializeMetadataPointer" -> ix.mint
    [] ix.type = "initializeDefaultAccountState" -> ix.mint
    [] ix.type = "initializeMint" -> ix.mint
    [] ix.type = "initializeMetadata" -> ix.mintAuthority
    [] ix.type = "updateField" -> ix.updateAuthority
    [] OTHER -> ix.authority

\* The keys of the field writes among the directives, in order.
RECURSIVE FieldsWritten(_)
FieldsWritten(tx) ==
  IF tx = <<>> THEN <<>>
  ELSE (IF Head(tx).type = "updateField" THEN <<Head(tx).field>> ELSE <<>>)
         \o FieldsWritten(Tail(tx))

\* What a call sent, without the quantities: per submission the directive
\* kinds, the keys of its field writes, the authorities named, the signers
\* and the outcome.
Shape(sent) ==
  [i \in 1..Len(sent) |->
     [types |-> [j \in 1..Len(sent[i].tx) |-> sent[i].tx[j].type],
      fields |-> FieldsWritten(sent[i].tx),
      authorities |-> {IxAuthority(sent[i].tx[j]) : j \in 1..Len(sent[i].tx)},
      signers |-> sent[i].signers,
      outcome |-> sent[i].outcome]]

\* The directives of the committed submissions of a call, in order.
RECURSIVE CommittedIxs(_)
CommittedIxs(sent) ==
  IF sent = <<>> THEN <<>>
  ELSE (IF Head(sent).outcome = "committed" THEN Head(sent).tx ELSE <<>>)
         \o CommittedIxs(Tail(sent))

\* Quantity the committed transfers of ixs moved out of account a.
RECURSIVE MovedOut(_, _)
MovedOut(ixs, a) ==
  IF ixs = <<>> THEN 0
  ELSE (IF Head(ixs).type = "transferChecked" /\ Head(ixs).source = a
           /\ Head(ixs).destination # a
        THEN Head(ixs).amount ELSE 0) + MovedOut(Tail(ixs), a)

-----------------------------------------------------------------------------
\* DvPEngine.createBondToken

Names == {<<"C", "P">>, <<"B">>}
Symbols == {<<"C", "P">>}
OptionalTexts == {<<>>, << <<>> >>, << <<"U", "S", "0">> >>}
Dates == {[year |-> 2026, month |-> 12, day |-> 31],
          [year |-> 2027, month |-> 1, day |-> 5]}
CouponRates == {0, 12}

BondTokenConfigs ==
  [name : Names, symbol : Symbols, decimals : ConfigDecimals,
   maturityDate : Dates, couponRate : CouponRates,
   isin : OptionalTexts, description : OptionalTexts]

\* "Create the metadata object to get EXACT size"
metadataOf(mintKeypair, config) ==
  [mint |-> mintKeypair, name |-> config.name, symbol |-> config.symbol,
   uri |-> OrEmpty(config.description),
   additionalMetadata |->
     << <<FieldCouponRate, NumberToString(config.couponRate)>>,
        <<FieldMaturityDate, toISOString(config.maturityDate)>>,
        <<FieldIsin, OrEmpty(config.isin)>> >>]

\* "Calculate space for mint with extensions (without metadata)"
spaceWithoutMetadataExtension ==
  getMintLen({"DefaultAccountState", "MetadataPointer"})

\* Variant: rent asked for the allocated size only.
fullSpaceBaseOnly(metadata) == spaceWithoutMetadataExtension

\* The size the rent is asked for: "FULL space (mint + metadata + TLV
\* overhead)"
fullSpace(metadata) ==
  spaceWithoutMetadataExtension + packLength(metadata)
    + (TYPE_SIZE + LENGTH_SIZE)

\* Variant: a field write for every pair, empty values included.
RECURSIVE updateFieldIxsAll(_, _)
updateFieldIxsAll(mintKeypair, additionalMetadata) ==
  IF additionalMetadata = <<>> THEN <<>>
  ELSE << [type |-> "updateField", program |-> TOKEN_2022_PROGRAM_ID,
           metadata |-> mintKeypair,
           updateAuthority |-> settlementAgent,
           field |-> Head(additionalMetadata)[1],
           value |-> Head(additionalMetadata)[2]] >>
       \o updateFieldIxsAll(mintKeypair, Tail(additionalMetadata))

\* "6. Add custom metadata fields from additionalMetadata array"
RECURSIVE updateFieldIxs(_, _)
updateFieldIxs(mintKeypair, additionalMetadata) ==
  IF additionalMetadata = <<>> THEN <<>>
  ELSE (IF Truthy(Head(additionalMetadata)[2])
        THEN << [type |-> "updateField", program |-> TOKEN_2022_PROGRAM_ID,
                 metadata |-> mintKeypair,
                 updateAuthority |-> settlementAgent,
                 field |-> Head(additionalMetadata)[1],
                 value |-> Head(additionalMetadata)[2]] >>
        ELSE <<>>)
       \o updateFieldIxs(mintKeypair, Tail(additionalMetadata))

\* "1. Create account with just base space, but rent for full space"
createAccountIx(issuer, mintKeypair, metadata) ==
  [type |-> "createAccount", from |-> issuer, newAccount |-> mintKeypair,
   space |-> spaceWithoutMetadataExtension,
   lamports |-> getMinimumBalanceForRentExemption(fullSpace(metadata)),
   program |-> TOKEN_2022_PROGRAM_ID]

\* "2. Initialize metadata pointer (before mint!)"
initializeMetadataPointerIx(issuer, mintKeypair) ==
  [type |-> "initializeMetadataPointer", program |-> TOKEN_2022_PROGRAM_ID,
   mint |-> mintKeypair, authority |-> issuer,
   metadataAddress |-> mintKeypair]

\* "3. Initialize default account state (frozen)"
initializeDefaultAccountStateIx(mintKeypair) ==
  [type |-> "initializeDefaultAccountState",
   program |-> TOKEN_2022_PROGRAM_ID, mint |-> mintKeypair,
   state |-> "frozen"]

\* Variant: the issuer as freeze authority.
initializeMintIxIssuerGates(issuer, mintKeypair, config) ==
  [type |-> "initializeMint", program |-> TOKEN_2022_PROGRAM_ID,
   mint |-> mintKeypair, decimals |-> config.decimals,
   mintAuthority |-> issuer, freezeAuthority |-> issuer]

\* "4. Initialize mint"
initializeMintIx(issuer, mintKeypair, config) ==
  [type |-> "initializeMint", program |-> TOKEN_2022_PROGRAM_ID,
   mint |-> mintKeypair, decimals |-> config.decimals,
   mintAuthority |-> issuer, freezeAuthority |-> settlementAgent]

\* Variant: name and symbol exchanged.
initializeMetadataIxSwapped(issuer, mintKeypair, config) ==
  [type |-> "initializeMetadata", program |-> TOKEN_2022_PROGRAM_ID,
   mint |-> mintKeypair, metadata |-> mintKeypair,
   name |-> config.symbol, symbol |-> config.name,
   uri |-> OrEmpty(config.description),
   mintAuthority |-> issuer, updateAuthority |-> settlementAgent]

\* "5. Initialize metadata"
initializeMetadataIx(issuer, mintKeypair, config) ==
  [type |-> "initializeMetadata", program |-> TOKEN_2022_PROGRAM_ID,
   mint |-> mintKeypair, metadata |-> mintKeypair,
   name |-> config.name, symbol |-> config.symbol,
   uri |-> OrEmpty(config.description),
   mintAuthority |-> issuer, updateAuthority |-> settlementAgent]

\* Variant: the mint initialized before the metadata pointer.
createBondTokenTxMintFirst(issuer, mintKeypair, config) ==
  LET metadata == metadataOf(mintKeypair, config) IN
  << createAccountIx(issuer, mintKeypair, metadata),
     initializeMintIx(issuer, mintKeypair, config),
     initializeDefaultAccountStateIx(mintKeypair),
     initializeMetadataPointerIx(issuer, mintKeypair),
     initializeMetadataIx(issuer, mintKeypair, config) >>
  \o updateFieldIxs(mintKeypair, metadata.additionalMetadata)

createBondTokenTx(issuer, mintKeypair, config) ==
  LET metadata == metadataOf(mintKeypair, config) IN
  << createAccountIx(issuer, mintKeypair, metadata),
     initializeMetadataPointerIx(issuer, mintKeypair),
     initializeDefaultAccountStateIx(mintKeypair),
     initializeMintIx(issuer, mintKeypair, config),
     initializeMetadataIx(issuer, mintKeypair, config) >>
  \o updateFieldIxs(mintKeypair, metadata.additionalMetadata)

\* Variant: the account allocation submitted on its own, the initialization
\* after it.
createBondTokenSubmissionsSplit(issuer, mintKeypair, config) ==
  << [tx |-> <<Head(createBondTokenTx(issuer, mintKeypair, config))>>,
      signers |-> {issuer, mintKeypair}],
     [tx |-> Tail(createBondTokenTx(issuer, mintKeypair, config)),
      signers |-> {issuer, settlementAgent}] >>

\* What createBondToken submits: one transaction, signed by the issuer, the
\* new mint's key and the settlement agent.
createBondTokenSubmissions(issuer, mintKeypair, config) ==
  << [tx |-> createBondTokenTx(issuer, mintKeypair, config),
      signers |-> {issuer, mintKeypair, settlementAgent}] >>

\* query: whether the rent query is answered; net: whether the submission
\* reaches the ledger.  A failed query throws before anything is submitted.
createBondTokenOn(issuer, config, query, net) ==
  /\ ~mints[BondMint].allocated
  /\ \E r \in {SubmitAll(Ledger,
                         IF query
                         THEN createBondTokenSubmissions(issuer, BondMint, config)
                         ELSE <<>>,
                         net)} :
       /\ mints' = r.st.mints
       /\ accounts' = r.st.accounts
       /\ lamports' = r.st.lamports
       /\ lastCall' = [op |-> "createBondToken", args |-> <<>>, done |-> TRUE,
                       ok |-> query /\ r.ok,
                       ret |-> IF query /\ r.ok THEN <<BondMint>> ELSE <<>>,
                       submitted |-> Shape(r.sent)]
  /\ UNCHANGED <<wl, grant, removed>>

createBondToken(issuer, config) ==
  \E query \in BOOLEAN, net \in BOOLEAN :
    createBondTokenOn(issuer, config, query, net)

\* The configurations of the settlement flow: one per bond precision.
SettlementConfigs ==
  {config \in BondTokenConfigs :
     /\ config.name = <<"C", "P">>
     /\ config.maturityDate.year = 2026
     /\ config.couponRate = 12
     /\ config.isin = << <<"U", "S", "0">> >>
     /\ config.description = <<>>}

-----------------------------------------------------------------------------
\* DvPEngine.whitelist, one action per await

\* prior: what the call before returned, when that call was a successful
\* whitelist of the same participant and asset (else nothing).
\* retry: the call before was a whitelist of the same participant and asset
\* that created the holding account and then failed at its thaw.
WlIdle ==
  [pc |-> "idle", mint |-> BondMint, participant |-> Issuer, payer |-> NoKey,
   isFrozen |-> FALSE, submitted |-> <<>>, prior |-> <<>>, retry |-> FALSE]

\* Variant: thaw whatever the account's state.
WhitelistThawsAlways(isFrozen) == TRUE

\* Variant: never thaw.
WhitelistThawsNever(isFrozen) == FALSE

\* "Only thaw if the account is frozen"
WhitelistThaws(isFrozen) == isFrozen

WlAddress(w) ==
  getAssociatedTokenAddress(w.mint, w.participant, TOKEN_2022_PROGRAM_ID)

WlArgs(w) == [bondMint |-> w.mint, participant |-> w.participant,
              payer |-> w.payer]

\* The call ends: with the address, or (ok = FALSE) with the error thrown.
WlEnd(w, ok) ==
  /\ wl' = WlIdle
  /\ lastCall' =
       [op |-> "whitelist", args |-> WlArgs(w),
        done |-> TRUE, ok |-> ok,
        ret |-> IF ok THEN <<WlAddress(w)>> ELSE <<>>,
        submitted |-> Shape(w.submitted),
        prior |-> w.prior, retry |-> w.retry]

WlPending(w) ==
  [op |-> "whitelist", args |-> <<>>, done |-> FALSE,
   ok |-> FALSE, ret |-> <<>>, submitted |-> <<>>,
   prior |-> w.prior, retry |-> w.retry]

\* getOrCreateAssociatedTokenAccount: first getAccount
WhitelistLookup(bondMint, participant, payer) ==
  /\ wl.pc = "idle"
  /\ \E net \in BOOLEAN :
       LET w0 == [WlIdle EXCEPT !.mint = bondMint, !.participant = participant,
                                !.payer = payer]
           w == [w0 EXCEPT !.prior =
                   IF /\ lastCall.op = "whitelist"
                      /\ lastCall.ok
                      /\ lastCall.args = WlArgs(w0)
                   THEN lastCall.ret ELSE <<>>,
                           !.retry =
                   /\ lastCall.op = "whitelist"
                   /\ ~lastCall.ok
                   /\ lastCall.args = WlArgs(w0)
                   /\ Len(lastCall.submitted) = 2
                   /\ lastCall.submitted[1].outcome = "committed"]
           a == accounts[WlAddress(w)]
       IN IF ~net
          THEN WlEnd(w, FALSE)
          ELSE /\ wl' = IF a.exists
                        THEN [w EXCEPT !.pc = "got", !.isFrozen = a.frozen]
                        ELSE [w EXCEPT !.pc = "create"]
               /\ lastCall' = WlPending(w)
  /\ UNCHANGED <<mints, accounts, lamports, grant, removed>>

\* Variant: the account created and thawed by one transaction.
WhitelistCreateAndThaw ==
  /\ wl.pc = "create"
  /\ \E net \in BOOLEAN :
       LET sub == [tx |-> << [type |-> "createAssociatedAccount",
                              payer |-> wl.payer, address |-> WlAddress(wl)],
                             [type |-> "thawAccount",
                              program |-> TOKEN_2022_PROGRAM_ID,
                              account |-> WlAddress(wl), mint |-> wl.mint,
                              authority |-> settlementAgent] >>,
                   signers |-> {wl.payer, settlementAgent}]
       IN \E r \in {SubmitAll(Ledger, <<sub>>, net)} :
          /\ mints' = r.st.mints
          /\ accounts' = r.st.accounts
          /\ lamports' = r.st.lamports
          /\ wl' = [wl EXCEPT !.pc = "reread",
                              !.submitted = @ \o r.sent]
  /\ UNCHANGED <<lastCall, grant, removed>>

\* getOrCreateAssociatedTokenAccount: create the account, errors ignored
WhitelistCreate ==
  /\ wl.pc = "create"
  /\ \E net \in BOOLEAN :
       LET sub == [tx |-> << [type |-> "createAssociatedAccount",
                              payer |-> wl.payer, address |-> WlAddress(wl)] >>,
                   signers |-> {wl.payer}]
       IN \E r \in {SubmitAll(Ledger, <<sub>>, net)} :
          /\ mints' = r.st.mints
          /\ accounts' = r.st.accounts
          /\ lamports' = r.st.lamports
          /\ wl' = [wl EXCEPT !.pc = "reread",
                              !.submitted = @ \o r.sent]
  /\ UNCHANGED <<lastCall, grant, removed>>

\* getOrCreateAssociatedTokenAccount: second getAccount
WhitelistReread ==
  /\ wl.pc = "reread"
  /\ \E net \in BOOLEAN :
       LET a == accounts[WlAddress(wl)] IN
       IF net /\ a.exists
       THEN /\ wl' = [wl EXCEPT !.pc = "got", !.isFrozen = a.frozen]
            /\ UNCHANGED lastCall
       ELSE WlEnd(wl, FALSE)
  /\ UNCHANGED <<mints, accounts, lamports, grant, removed>>

\* thawAccount when the account read was frozen, then return the address
WhitelistFinish ==
  /\ wl.pc = "got"
  /\ IF WhitelistThaws(wl.isFrozen)
     THEN \E net \in BOOLEAN :
            LET sub == [tx |-> << [type |-> "thawAccount",
                                   program |-> TOKEN_2022_PROGRAM_ID,
                                   account |-> WlAddress(wl), mint |-> wl.mint,
                                   authority |-> settlementAgent] >>,
                        signers |-> {settlementAgent}]
            IN \E r \in {SubmitAll(Ledger, <<sub>>, net)} :
               /\ mints' = r.st.mints
               /\ accounts' = r.st.accounts
               /\ lamports' = r.st.lamports
               /\ removed' = IF r.ok THEN removed \ {WlAddress(wl)} ELSE removed
               /\ WlEnd([wl EXCEPT !.submitted = @ \o r.sent], r.ok)
     ELSE /\ WlEnd(wl, TRUE)
          /\ UNCHANGED <<mints, accounts, lamports, removed>>
  /\ UNCHANGED grant

-----------------------------------------------------------------------------
\* DvPEngine.removeFromWhitelist

\* Variant: a thaw directive in place of the freeze.
removeFromWhitelistTxThaw(bondMint, investorBondAccount) ==
  << [type |-> "thawAccount", program |-> TOKEN_2022_PROGRAM_ID,
      account |-> investorBondAccount, mint |-> bondMint,
      authority |-> settlementAgent] >>

removeFromWhitelistTx(bondMint, investorBondAccount) ==
  << [type |-> "freezeAccount", program |-> TOKEN_2022_PROGRAM_ID,
      account |-> investorBondAccount, mint |-> bondMint,
      authority |-> settlementAgent] >>

\* net: whether the submission reaches the ledger
removeFromWhitelistOn(bondMint, investorBondAccount, net) ==
  /\ LET sub == [tx |-> removeFromWhitelistTx(bondMint, investorBondAccount),
                 signers |-> {settlementAgent}]
     IN \E r \in {SubmitAll(Ledger, <<sub>>, net)} :
        /\ mints' = r.st.mints
        /\ accounts' = r.st.accounts
        /\ lamports' = r.st.lamports
        /\ removed' = IF r.ok THEN removed \cup {investorBondAccount}
                      ELSE removed
        /\ lastCall' = [op |-> "removeFromWhitelist", args |-> <<>>, done |-> TRUE,
                        ok |-> r.ok, ret |-> <<>>,
                        submitted |-> Shape(r.sent)]
  /\ UNCHANGED <<wl, grant>>

removeFromWhitelist(bondMint, investorBondAccount) ==
  \E net \in BOOLEAN : removeFromWhitelistOn(bondMint, investorBondAccount, net)

-----------------------------------------------------------------------------
\* DvPEngine.delegateAuthority

\* Variant: one decimal place too many.
delegateCeilingTenfold(amount, decimals) == amount * Pow10(decimals + 1)

\* The ceiling in force on an account in a ledger state (0 when the account
\* has no delegation to the settlement agent); recorded with each
\* delegateAuthority call as the ceiling it found.
DelegatedCeilingIn(st, a) ==
  IF st.accounts[a].delegate = settlementAgent
  THEN st.accounts[a].delegated ELSE 0

\* amountWithDecimals
delegateCeiling(amount, decimals) == amount * Pow10(decimals)

\* Variant: the amount is handed over to the other party's account by a
\* transfer the owner signs, in place of the approval.
delegateAuthorityTxTransfers(owner, tokenAccount, amount, decimals, programId) ==
  << [type |-> "transferChecked", program |-> programId,
      source |-> tokenAccount, mint |-> tokenAccount.mint,
      destination |->
        getAssociatedTokenAddress(tokenAccount.mint,
                                  CHOOSE p \in Parties : p # owner, programId),
      authority |-> owner,
      amount |-> delegateCeiling(amount, decimals),
      decimals |-> decimals] >>

\* Variant: the approval carries the unscaled amount.
delegateAuthorityTxUnscaled(owner, tokenAccount, amount, decimals, programId) ==
  << [type |-> "approve", program |-> programId, account |-> tokenAccount,
      delegate |-> settlementAgent, owner |-> owner,
      amount |-> amount] >>

delegateAuthorityTx(owner, tokenAccount, amount, decimals, programId) ==
  << [type |-> "approve", program |-> programId, account |-> tokenAccount,
      delegate |-> settlementAgent, owner |-> owner,
      amount |-> delegateCeiling(amount, decimals)] >>

delegateAuthorityOn(owner, tokenAccount, amount, decimals, programId, net) ==
  /\ LET sub == [tx |-> delegateAuthorityTx(owner, tokenAccount, amount,
                                            decimals, programId),
                 signers |-> {owner}]
     IN \E r \in {SubmitAll(Ledger, <<sub>>, net)} :
        /\ mints' = r.st.mints
        /\ accounts' = r.st.accounts
        /\ lamports' = r.st.lamports
        /\ grant' = IF r.ok
                    THEN [grant EXCEPT ![tokenAccount] =
                            [granted |-> TRUE,
                             left |-> amount * Pow10(decimals)]]
                    ELSE grant
        /\ lastCall' = [op |-> "delegateAuthority", args |-> <<>>, done |-> TRUE,
                        ok |-> r.ok, ret |-> <<>>,
                        submitted |-> Shape(r.sent),
                        before |-> DelegatedCeilingIn(Ledger, tokenAccount)]
  /\ UNCHANGED <<wl, removed>>

delegateAuthority(owner, tokenAccount, amount, decimals, programId) ==
  \E net \in BOOLEAN :
    delegateAuthorityOn(owner, tokenAccount, amount, decimals, programId, net)

-----------------------------------------------------------------------------
\* DvPEngine.executeDvP

DvPParams ==
  [bondMint : {BondMint}, usdcMint : {UsdcMint},
   bondAmount : 0..MaxAmount, usdcAmount : 0..MaxAmount,
   issuer : {Issuer}, investor : {Investor}]

issuerBondAccount(params) ==
  getAssociatedTokenAddress(params.bondMint, params.issuer, TOKEN_2022_PROGRAM_ID)
investorBondAccount(params) ==
  getAssociatedTokenAddress(params.bondMint, params.investor, TOKEN_2022_PROGRAM_ID)
investorUSDCAccount(params) ==
  getAssociatedTokenAddress(params.usdcMint, params.investor, TOKEN_PROGRAM_ID)
issuerUSDCAccount(params) ==
  getAssociatedTokenAddress(params.usdcMint, params.issuer, TOKEN_PROGRAM_ID)

\* Variant: the source account's owner named as the authority.
createTransferCheckedIxByOwner(source, mint, destination, amount, decimals, programId) ==
  [type |-> "transferChecked", program |-> programId, source |-> source,
   mint |-> mint, destination |-> destination,
   authority |-> source.owner, amount |-> amount, decimals |-> decimals]

createTransferCheckedIx(source, mint, destination, amount, decimals, programId) ==
  [type |-> "transferChecked", program |-> programId, source |-> source,
   mint |-> mint, destination |-> destination,
   authority |-> settlementAgent, amount |-> amount, decimals |-> decimals]

\* Variant: the bond's own precision passed as the expected precision.
bondTransferIxMintPrecision(params) ==
  createTransferCheckedIx(issuerBondAccount(params), params.bondMint,
                          investorBondAccount(params), params.bondAmount,
                          mints[params.bondMint].decimals,
                          TOKEN_2022_PROGRAM_ID)

\* Bond transfer instruction (Issuer -> Investor)
bondTransferIx(params) ==
  createTransferCheckedIx(issuerBondAccount(params), params.bondMint,
                          investorBondAccount(params), params.bondAmount,
                          BondLegDecimals, TOKEN_2022_PROGRAM_ID)

\* Variant: the currency quantity passed through without scaling.
usdcTransferIxUnscaled(params) ==
  createTransferCheckedIx(investorUSDCAccount(params), params.usdcMint,
                          issuerUSDCAccount(params), params.usdcAmount,
                          UsdcLegDecimals, TOKEN_PROGRAM_ID)

\* USDC transfer instruction (Investor -> Issuer)
usdcTransferIx(params) ==
  createTransferCheckedIx(investorUSDCAccount(params), params.usdcMint,
                          issuerUSDCAccount(params),
                          params.usdcAmount * UsdcLegScale,
                          UsdcLegDecimals, TOKEN_PROGRAM_ID)

\* Variant: the currency transfer submitted first, then the bond transfer.
executeDvPSubmissionsCurrencyFirst(params) ==
  << [tx |-> <<usdcTransferIx(params)>>, signers |-> {settlementAgent}],
     [tx |-> <<bondTransferIx(params)>>, signers |-> {settlementAgent}] >>

\* Variant: one transaction, the currency transfer before the bond transfer.
executeDvPSubmissionsSwapped(params) ==
  << [tx |-> <<usdcTransferIx(params), bondTransferIx(params)>>,
      signers |-> {settlementAgent}] >>

\* Variant: each transfer submitted as a transaction of its own.
executeDvPSubmissionsSplit(params) ==
  << [tx |-> <<bondTransferIx(params)>>, signers |-> {settlementAgent}],
     [tx |-> <<usdcTransferIx(params)>>, signers |-> {settlementAgent}] >>

\* What executeDvP submits: one transaction holding both transfers, signed by
\* the settlement agent.
executeDvPSubmissions(params) ==
  << [tx |-> <<bondTransferIx(params), usdcTransferIx(params)>>,
      signers |-> {settlementAgent}] >>

\* Variant: a result record whatever the outcome, its flags telling it.
executeDvPReturnAlways(params, confirmed) ==
  << [bondAmount |-> params.bondAmount, usdcAmount |-> params.usdcAmount,
      bondsSent |-> confirmed, usdcReceived |-> confirmed] >>

\* What executeDvP returns: the result record once the submission is
\* confirmed; nothing when the await throws.
executeDvPReturn(params, confirmed) ==
  IF confirmed
  THEN << [bondAmount |-> params.bondAmount, usdcAmount |-> params.usdcAmount,
           bondsSent |-> TRUE, usdcReceived |-> TRUE] >>
  ELSE <<>>

executeDvPOn(params, net) ==
  /\ \E r \in {SubmitAll(Ledger, executeDvPSubmissions(params), net)} :
        /\ mints' = r.st.mints
        /\ accounts' = r.st.accounts
        /\ lamports' = r.st.lamports
        /\ \E ixs \in {CommittedIxs(r.sent)} :
             grant' = [a \in Addr |->
                         [grant[a] EXCEPT !.left = @ - MovedOut(ixs, a)]]
        /\ lastCall' = [op |-> "executeDvP", args |-> <<>>, done |-> TRUE,
                        ok |-> r.ok,
                        ret |-> executeDvPReturn(params, r.ok),
                        submitted |-> Shape(r.sent)]
  /\ UNCHANGED <<wl, removed>>

executeDvP(params) ==
  \E net \in BOOLEAN : executeDvPOn(params, net)

-----------------------------------------------------------------------------
\* The demo driver's own ledger calls (tests/dvp.test.ts) and the owner's
\* direct transfer; these are not engine operations.

Supply(mint) ==
  accounts[getAssociatedTokenAddress(mint, Issuer, mints[mint].program)].amount
  + accounts[getAssociatedTokenAddress(mint, Investor, mints[mint].program)].amount

\* Base units of a human-scale quantity of an asset of the given precision.
BaseUnits(amount, decimals) == amount * Pow10(decimals)

\* mintTo(connection, issuer, bondMint, issuerBondAccount, issuer, amount, ...)
mintTo(amount) ==
  LET dest == getAssociatedTokenAddress(BondMint, Issuer, TOKEN_2022_PROGRAM_ID)
      sub == [tx |-> << [type |-> "mintTo", program |-> TOKEN_2022_PROGRAM_ID,
                         mint |-> BondMint, destination |-> dest,
                         authority |-> Issuer, amount |-> amount] >>,
              signers |-> {Issuer}]
  IN /\ Supply(BondMint) + amount <= MaxAmount
     /\ \E r \in {SubmitAll(Ledger, <<sub>>, TRUE)} :
          /\ r.ok
          /\ mints' = r.st.mints
          /\ accounts' = r.st.accounts
          /\ lamports' = r.st.lamports
          /\ lastCall' = [op |-> "mintTo", args |-> <<>>, done |-> TRUE,
                          ok |-> TRUE, ret |-> <<>>,
                          submitted |-> Shape(r.sent)]
     /\ UNCHANGED <<wl, grant, removed>>

\* A transfer signed by the account's owner (no delegate involved) of a
\* human-scale quantity to the other party's account of the same asset.
directTransfer(owner, mint, amount) ==
  LET other == CHOOSE p \in Parties : p # owner
      src == getAssociatedTokenAddress(mint, owner, mints[mint].program)
      dst == getAssociatedTokenAddress(mint, other, mints[mint].program)
      sub == [tx |-> << [type |-> "transferChecked", program |-> src.program,
                         source |-> src, mint |-> mint, destination |-> dst,
                         authority |-> owner,
                         amount |-> BaseUnits(amount, mints[mint].decimals),
                         decimals |-> mints[mint].decimals] >>,
              signers |-> {owner}]
  IN /\ accounts[src].exists
     /\ \E r \in {SubmitAll(Ledger, <<sub>>, TRUE)} :
          /\ mints' = r.st.mints
          /\ accounts' = r.st.accounts
          /\ lamports' = r.st.lamports
          /\ lastCall' = [op |-> "directTransfer", args |-> <<>>, done |-> TRUE,
                          ok |-> r.ok, ret |-> <<>>,
                          submitted |-> Shape(r.sent)]
     /\ UNCHANGED <<wl, grant, removed>>

\* A freeze or thaw of a party's bond account requested and signed by an
\* identity of its own choosing rather than through the engine.
gatingBy(who, kind, p) ==
  LET a == getAssociatedTokenAddress(BondMint, p, TOKEN_2022_PROGRAM_ID)
      sub == [tx |-> << [type |-> kind, program |-> TOKEN_2022_PROGRAM_ID,
                         account |-> a, mint |-> BondMint,
                         authority |-> who] >>,
              signers |-> {who}]
  IN /\ accounts[a].exists
     /\ \E r \in {SubmitAll(Ledger, <<sub>>, TRUE)} :
          /\ mints' = r.st.mints
          /\ accounts' = r.st.accounts
          /\ lamports' = r.st.lamports
          /\ lastCall' = [op |-> "gatingBy", args |-> <<>>, done |-> TRUE,
                          ok |-> r.ok, ret |-> <<>>,
                          submitted |-> Shape(r.sent)]
     /\ UNCHANGED <<wl, grant, removed>>

-----------------------------------------------------------------------------
\* Specification

\* The ledger when the engine is constructed: no bond yet; the currency, both
\* parties' currency accounts and the investor's currency funding (MaxAmount
\* whole units) are set up outside the engine.
Init ==
  /\ mints = [m \in Mints |-> IF m = UsdcMint THEN MockUSDCMint ELSE NoMint]
  /\ accounts =
       [a \in Addr |->
          IF a.mint = UsdcMint
          THEN [NoAccount EXCEPT
                  !.exists = TRUE,
                  !.amount = IF a.owner = Investor
                             THEN MaxAmount * UsdcLegScale ELSE 0]
          ELSE NoAccount]
  /\ lamports = [p \in Parties |-> AirdropSol * LAMPORTS_PER_SOL]
  /\ wl = WlIdle
  /\ lastCall = [op |-> "none", args |-> <<>>, done |-> TRUE,
                 ok |-> TRUE, ret |-> <<>>, submitted |-> <<>>]
  /\ grant = [a \in Addr |-> [granted |-> FALSE, left |-> 0]]
  /\ removed = {}

\* The account each party delegates in the settlement flow: the issuer its
\* bond account, the investor its currency account.
DelegatedAccount(owner) ==
  IF owner = Issuer
  THEN getAssociatedTokenAddress(BondMint, Issuer, TOKEN_2022_PROGRAM_ID)
  ELSE getAssociatedTokenAddress(UsdcMint, Investor, TOKEN_PROGRAM_ID)

\* One caller at a time: a call starts only when no whitelist call is in
\* progress.
CallCreateBondToken ==
  /\ wl.pc = "idle"
  /\ \E config \in SettlementConfigs : createBondToken(Issuer, config)

CallWhitelist ==
  \E p \in Parties : WhitelistLookup(BondMint, p, settlementAgent)

CallRemoveFromWhitelist ==
  /\ wl.pc = "idle"
  /\ \E p \in Parties :
       removeFromWhitelist(BondMint,
         getAssociatedTokenAddress(BondMint, p, TOKEN_2022_PROGRAM_ID))

CallDelegateAuthority ==
  /\ wl.pc = "idle"
  /\ \E owner \in Parties, amount \in 0..MaxAmount :
       LET a == DelegatedAccount(owner) IN
       \E decimals \in DelegateDecimals(a.mint) :
         delegateAuthority(owner, a, amount, decimals, a.program)

CallExecuteDvP ==
  /\ wl.pc = "idle"
  /\ \E params \in DvPParams : executeDvP(params)

CallMintTo ==
  /\ wl.pc = "idle"
  /\ \E amount \in 1..MaxAmount : mintTo(amount)

CallDirectTransfer ==
  /\ wl.pc = "idle"
  /\ \E p \in Parties, amount \in 0..MaxAmount :
       directTransfer(p, BondMint, amount)

Next ==
  \/ CallCreateBondToken
  \/ CallWhitelist
  \/ WhitelistCreate
  \/ WhitelistReread
  \/ WhitelistFinish
  \/ CallRemoveFromWhitelist
  \/ CallDelegateAuthority
  \/ CallExecuteDvP
  \/ CallMintTo
  \/ CallDirectTransfer

Spec == Init /\ [][Next]_vars

-----------------------------------------------------------------------------
\* Settlement against a currency of either precision: the engine takes the
\* currency asset as a parameter of executeDvP, so the currency set up outside
\* it need not have the precision of the demo's mock USDC.

CurrencyDecimals == {6, 2}

InitPrecision ==
  /\ \E decimals \in CurrencyDecimals :
       mints = [m \in Mints |->
                  IF m = UsdcMint
                  THEN [MockUSDCMint EXCEPT !.decimals = decimals]
                  ELSE NoMint]
  /\ accounts =
       [a \in Addr |->
          IF a.mint = UsdcMint
          THEN [NoAccount EXCEPT
                  !.exists = TRUE,
                  !.amount = IF a.owner = Investor
                             THEN MaxAmount * UsdcLegScale ELSE 0]
          ELSE NoAccount]
  /\ lamports = [p \in Parties |-> AirdropSol * LAMPORTS_PER_SOL]
  /\ wl = WlIdle
  /\ lastCall = [op |-> "none", args |-> <<>>, done |-> TRUE,
                 ok |-> TRUE, ret |-> <<>>, submitted |-> <<>>]
  /\ grant = [a \in Addr |-> [granted |-> FALSE, left |-> 0]]
  /\ removed = {}

SpecPrecision == InitPrecision /\ [][Next]_vars

-----------------------------------------------------------------------------
\* Two callers: one makes whitelist calls, one at a time; the other makes
\* removeFromWhitelist calls at any moment, between the awaits of a
\* whitelist call included.  The ledger applies each submission as a whole.

OtherCallerRemoves ==
  \E p \in Parties :
    removeFromWhitelist(BondMint,
      getAssociatedTokenAddress(BondMint, p, TOKEN_2022_PROGRAM_ID))

NextConcurrent ==
  \/ CallCreateBondToken
  \/ CallWhitelist
  \/ WhitelistCreate
  \/ WhitelistReread
  \/ WhitelistFinish
  \/ OtherCallerRemoves

SpecConcurrent == Init /\ [][NextConcurrent]_vars

-----------------------------------------------------------------------------
\* Issuance: createBondToken over every configuration, with an issuer that
\* may be unable to pay for the asset account, followed by whitelisting and
\* gating of the asset's holding accounts.

InitIssuance ==
  /\ mints = [m \in Mints |-> IF m = UsdcMint THEN MockUSDCMint ELSE NoMint]
  /\ accounts = [a \in Addr |-> NoAccount]
  /\ \E sol \in {0, AirdropSol} :
       lamports = [p \in Parties |->
                     IF p = Issuer THEN sol * LAMPORTS_PER_SOL
                     ELSE AirdropSol * LAMPORTS_PER_SOL]
  /\ wl = WlIdle
  /\ lastCall = [op |-> "none", args |-> <<>>, done |-> TRUE,
                 ok |-> TRUE, ret |-> <<>>, submitted |-> <<>>]
  /\ grant = [a \in Addr |-> [granted |-> FALSE, left |-> 0]]
  /\ removed = {}

IssueBondToken ==
  /\ wl.pc = "idle"
  /\ \E config \in BondTokenConfigs : createBondToken(Issuer, config)

CallGatingBy ==
  /\ wl.pc = "idle"
  /\ \E who \in Parties, kind \in {"thawAccount", "freezeAccount"},
        p \in Parties :
       gatingBy(who, kind, p)

NextIssuance ==
  \/ IssueBondToken
  \/ CallWhitelist
  \/ WhitelistCreate
  \/ WhitelistReread
  \/ WhitelistFinish
  \/ CallRemoveFromWhitelist
  \/ CallGatingBy

SpecIssuance == InitIssuance /\ [][NextIssuance]_vars

-----------------------------------------------------------------------------
\* Properties

\* Base units of the currency leg of a settlement, as the contract states it.
CurrencyUnits(params) == params.usdcAmount * Pow10(6)

SettlementAccounts(params) ==
  {issuerBondAccount(params), investorBondAccount(params),
   investorUSDCAccount(params), issuerUSDCAccount(params)}

\* In this step the bond leg moved bondAmount from issuer to investor and the
\* currency leg moved usdcAmount * 10^6 from investor to issuer.
BothLegsApplied(params) ==
  /\ accounts'[issuerBondAccount(params)].amount =
       accounts[issuerBondAccount(params)].amount - params.bondAmount
  /\ accounts'[investorBondAccount(params)].amount =
       accounts[investorBondAccount(params)].amount + params.bondAmount
  /\ accounts'[investorUSDCAccount(params)].amount =
       accounts[investorUSDCAccount(params)].amount - CurrencyUnits(params)
  /\ accounts'[issuerUSDCAccount(params)].amount =
       accounts[issuerUSDCAccount(params)].amount + CurrencyUnits(params)

\* In this step none of the four balances changed.
NoLegApplied(params) ==
  \A a \in SettlementAccounts(params) : accounts'[a].amount = accounts[a].amount

\* The ceiling the account's owner has delegated to the settlement agent that
\* is still in force (0 when there is no such delegation).
DelegatedCeiling(a) ==
  IF accounts[a].delegate = settlementAgent THEN accounts[a].delegated ELSE 0

\* Every step of action A from a state satisfying P ends with Q.  The state
\* tests come before the action so that they are decided first.
StepFrom(P, A, Q) == ~(P /\ ~Q /\ A)

\* The step is one of the named operation.
StepOf(op) == lastCall'.op = op

Thawed(a) == accounts[a].exists /\ ~accounts[a].frozen

LastIs(op) == lastCall.op = op /\ lastCall.done

\* The last call's only submission reached the ledger and was rejected by it.
LastRejected ==
  /\ ~lastCall.ok
  /\ Len(lastCall.submitted) = 1
  /\ lastCall.submitted[1].outcome = "rejected"

\* C1: every executeDvP call, after any sequence of calls, commits both of its
\* transfers or neither: no step of executeDvP applies one leg without the
\* other.
C1_BothLegsOrNeither ==
  [][StepOf("executeDvP") =>
     \A params \in DvPParams :
       StepFrom(TRUE, executeDvP(params),
                BothLegsApplied(params) \/ NoLegApplied(params))]_vars

\* A settlement of a positive bond and a positive currency quantity committed.
C1_Witness ==
  /\ LastIs("executeDvP") /\ lastCall.ok
  /\ lastCall.ret[1].bondAmount > 0
  /\ lastCall.ret[1].usdcAmount > 0

\* C2: for a bond of precision 0 and a currency of precision 6, when both bond
\* accounts are thawed, the issuer holds and has delegated at least bondAmount
\* and the investor holds and has delegated at least usdcAmount * 10^6, an
\* executeDvP whose submission reaches the ledger succeeds and moves exactly
\* bondAmount bonds and usdcAmount * 10^6 currency units between the parties.
SettlementReady(params) ==
  /\ mints[params.bondMint].exists /\ mints[params.bondMint].decimals = 0
  /\ mints[params.usdcMint].exists /\ mints[params.usdcMint].decimals = 6
  /\ Thawed(issuerBondAccount(params))
  /\ Thawed(investorBondAccount(params))
  /\ accounts[issuerBondAccount(params)].amount >= params.bondAmount
  /\ accounts[issuerBondAccount(params)].delegate = settlementAgent
  /\ accounts[issuerBondAccount(params)].delegated >= params.bondAmount
  /\ accounts[investorUSDCAccount(params)].amount >= CurrencyUnits(params)
  /\ accounts[investorUSDCAccount(params)].delegate = settlementAgent
  /\ accounts[investorUSDCAccount(params)].delegated >= CurrencyUnits(params)

C2_ReadySettlementMovesExactly ==
  [][StepOf("executeDvP") =>
     \A params \in DvPParams :
       StepFrom(SettlementReady(params), executeDvPOn(params, TRUE),
                lastCall'.ok /\ BothLegsApplied(params))]_vars

\* A committed settlement after which the investor holds bonds and the issuer
\* holds currency.
C2_Witness ==
  /\ LastIs("executeDvP") /\ lastCall.ok
  /\ mints[BondMint].decimals = 0
  /\ accounts[getAssociatedTokenAddress(BondMint, Investor,
                                        TOKEN_2022_PROGRAM_ID)].amount > 0
  /\ accounts[getAssociatedTokenAddress(UsdcMint, Issuer,
                                        TOKEN_PROGRAM_ID)].amount >= Pow10(6)

\* C3: when the investor's delegated currency ceiling is below
\* usdcAmount * 10^6, executeDvP fails and none of the four balances changes.
C3_LowCurrencyCeilingFailsWhole ==
  [][StepOf("executeDvP") =>
     \A params \in DvPParams :
       StepFrom(DelegatedCeiling(investorUSDCAccount(params))
                  < CurrencyUnits(params),
                executeDvP(params),
                ~lastCall'.ok /\ NoLegApplied(params))]_vars

\* The bond leg on its own is valid for the parameters.
BondLegAloneValid(params) ==
  ProcessTransaction(Ledger, <<bondTransferIx(params)>>, {settlementAgent}).ok

CurrencyLegAloneValid(params) ==
  ProcessTransaction(Ledger, <<usdcTransferIx(params)>>, {settlementAgent}).ok

\* An executeDvP was rejected by the ledger in a state where, for every
\* quantity, the bond leg alone is valid and the investor's currency balance
\* suffices, so that the currency leg is invalid exactly when it exceeds the
\* delegated ceiling: the rejected call's currency leg exceeded the ceiling.
C3_Witness ==
  /\ LastIs("executeDvP") /\ LastRejected
  /\ \A params \in DvPParams :
       /\ BondLegAloneValid(params)
       /\ accounts[investorUSDCAccount(params)].amount >= CurrencyUnits(params)
       /\ CurrencyLegAloneValid(params) <=>
            DelegatedCeiling(investorUSDCAccount(params)) >= CurrencyUnits(params)

\* The directive kinds of everything a call submitted.
SubmittedTypes(submitted) ==
  UNION {{submitted[i].types[j] : j \in 1..Len(submitted[i].types)} :
           i \in 1..Len(submitted)}

BondAccountOf(p) == getAssociatedTokenAddress(BondMint, p, TOKEN_2022_PROGRAM_ID)

\* C4: whitelist is idempotent.  A whitelist call made directly after a
\* successful whitelist of the same participant and asset changes nothing on
\* the ledger (frozen flag, balance and delegation of the holding account
\* included), submits no thaw and no freeze directive, returns the address the
\* first call returned, and fails only when its account query fails.
C4_WhitelistIdempotent ==
  [][StepOf("whitelist") /\ lastCall'.prior # <<>> =>
       /\ accounts' = accounts
       /\ mints' = mints
       /\ lastCall'.done =>
            /\ SubmittedTypes(lastCall'.submitted)
                 \cap {"thawAccount", "freezeAccount"} = {}
            /\ lastCall'.ok => lastCall'.ret = lastCall'.prior
            /\ ~lastCall'.ok => wl.pc = "idle"]_vars

\* A second whitelist call directly after a successful first one has returned.
C4_Witness ==
  /\ LastIs("whitelist") /\ lastCall.ok
  /\ lastCall.prior # <<>>

\* C5: a whitelist call that returns without error leaves the participant
\* with an existing, thawed holding account for the asset and returns that
\* account's address, whether the account was missing, frozen or thawed
\* before.
C5_WhitelistLeavesThawedAccount ==
  LastIs("whitelist") /\ lastCall.ok =>
    LET a == getAssociatedTokenAddress(lastCall.args.bondMint,
                                       lastCall.args.participant,
                                       TOKEN_2022_PROGRAM_ID)
    IN /\ lastCall.ret = <<a>>
       /\ accounts[a].exists
       /\ ~accounts[a].frozen

\* One whitelist call created the missing account and thawed it.
C5_Witness ==
  /\ LastIs("whitelist") /\ lastCall.ok
  /\ Len(lastCall.submitted) = 2
  /\ lastCall.submitted[1].types = <<"createAssociatedAccount">>
  /\ lastCall.submitted[1].outcome = "committed"
  /\ lastCall.submitted[2].types = <<"thawAccount">>
  /\ lastCall.submitted[2].outcome = "committed"

\* C6: from a successful removeFromWhitelist of a holding account until a
\* whitelist thaws it, every transfer out of the account signed by its owner
\* fails and leaves the account's balance unchanged.
C6_RemovedAccountCannotTransferOut ==
  [][StepOf("directTransfer") =>
       \A p \in Parties, amount \in 0..MaxAmount :
         StepFrom(BondAccountOf(p) \in removed,
                  directTransfer(p, BondMint, amount),
                  /\ ~lastCall'.ok
                  /\ accounts'[BondAccountOf(p)].amount =
                       accounts[BondAccountOf(p)].amount)]_vars

\* The ledger rejected the issuer's own transfer out of its removed account,
\* although the account holds enough for every quantity and the investor's
\* account can receive.
C6_Witness ==
  /\ LastIs("directTransfer") /\ LastRejected
  /\ lastCall.submitted[1].signers = {Issuer}
  /\ BondAccountOf(Issuer) \in removed
  /\ accounts[BondAccountOf(Issuer)].amount
       >= BaseUnits(MaxAmount, mints[BondMint].decimals)
  /\ Thawed(BondAccountOf(Investor))

Frozen(a) == accounts[a].exists /\ accounts[a].frozen

\* C7: when the issuer's bond account (source) or the investor's bond account
\* (destination) is frozen, executeDvP fails and applies neither leg, whatever
\* the balances and the delegated ceilings.
C7_FrozenBondAccountBlocksSettlement ==
  [][StepOf("executeDvP") =>
     \A params \in DvPParams :
       StepFrom(\/ Frozen(issuerBondAccount(params))
                \/ Frozen(investorBondAccount(params)),
                executeDvP(params),
                ~lastCall'.ok /\ NoLegApplied(params))]_vars

\* The ledger rejected a settlement while a bond account was frozen, although
\* balances and delegated ceilings cover every quantity.
C7_Witness ==
  /\ LastIs("executeDvP") /\ LastRejected
  /\ \A params \in DvPParams :
       /\ \/ Frozen(issuerBondAccount(params))
          \/ Frozen(investorBondAccount(params))
       /\ accounts[investorBondAccount(params)].exists
       /\ accounts[issuerBondAccount(params)].amount >= params.bondAmount
       /\ DelegatedCeiling(issuerBondAccount(params)) >= params.bondAmount
       /\ accounts[investorUSDCAccount(params)].amount >= CurrencyUnits(params)
       /\ DelegatedCeiling(investorUSDCAccount(params)) >= CurrencyUnits(params)

\* C8: the total quantity that committed settlements have moved out of an
\* account since its owner's last delegateAuthority never exceeds the ceiling
\* that call approved (grant[a].left, the approved ceiling less the total
\* moved, never falls below 0); and delegateAuthority changes no balance.
C8_CeilingBoundsSettlements ==
  [][/\ \A a \in Addr : grant'[a].left >= 0
     /\ StepOf("delegateAuthority") =>
          \A a \in Addr : accounts'[a].amount = accounts[a].amount]_vars

\* Settlements consumed the whole ceiling the issuer approved, and a further
\* settlement was rejected although the issuer still holds bonds, both bond
\* accounts are thawed and the currency side covers every quantity.
C8_Witness ==
  /\ LastIs("executeDvP") /\ LastRejected
  /\ grant[BondAccountOf(Issuer)].granted
  /\ grant[BondAccountOf(Issuer)].left = 0
  /\ accounts[BondAccountOf(Investor)].amount > 0
  /\ accounts[BondAccountOf(Issuer)].amount > 0
  /\ Thawed(BondAccountOf(Issuer)) /\ Thawed(BondAccountOf(Investor))
  /\ \A params \in DvPParams :
       /\ accounts[investorUSDCAccount(params)].amount >= CurrencyUnits(params)
       /\ DelegatedCeiling(investorUSDCAccount(params)) >= CurrencyUnits(params)

\* The owner of the account has no delegation to the settlement agent in
\* force: it never delegated, or the delegation is used up.
DelegationMissing(a) ==
  ~grant[a].granted \/ accounts[a].delegate # settlementAgent

\* C9: executeDvP submits one transaction that names the settlement agent as
\* the authority of both transfers and is signed by the settlement agent
\* alone; it commits only if the issuer earlier delegated its bond account and
\* the investor its currency account by delegateAuthority; with either
\* delegation missing it fails and changes no balance.
C9_AgentAloneOnPriorDelegation ==
  [][StepOf("executeDvP") =>
     \A params \in DvPParams :
       /\ StepFrom(TRUE, executeDvP(params),
                   /\ Len(lastCall'.submitted) = 1
                   /\ lastCall'.submitted[1].types =
                        <<"transferChecked", "transferChecked">>
                   /\ lastCall'.submitted[1].authorities = {settlementAgent}
                   /\ lastCall'.submitted[1].signers = {settlementAgent}
                   /\ lastCall'.ok =>
                        /\ grant[issuerBondAccount(params)].granted
                        /\ grant[investorUSDCAccount(params)].granted)
       /\ StepFrom(\/ DelegationMissing(issuerBondAccount(params))
                   \/ DelegationMissing(investorUSDCAccount(params)),
                   executeDvP(params),
                   ~lastCall'.ok /\ NoLegApplied(params))]_vars

\* A settlement signed by the settlement agent alone committed after both
\* parties had delegated.
C9_Witness ==
  /\ LastIs("executeDvP") /\ lastCall.ok
  /\ lastCall.submitted[1].signers = {settlementAgent}
  /\ lastCall.submitted[1].authorities = {settlementAgent}
  /\ grant[BondAccountOf(Issuer)].granted
  /\ grant[getAssociatedTokenAddress(UsdcMint, Investor,
                                     TOKEN_PROGRAM_ID)].granted

\* C10: an executeDvP that returns, returns bondsSent = TRUE and
\* usdcReceived = TRUE with bondAmount and usdcAmount equal to the call's
\* inputs, and its transaction was committed; an executeDvP whose submission
\* fails returns no result.
C10_ResultOnlyOnConfirmation ==
  [][StepOf("executeDvP") =>
     \A params \in DvPParams :
       StepFrom(TRUE, executeDvP(params),
                IF lastCall'.ok
                THEN /\ lastCall'.ret =
                          << [bondAmount |-> params.bondAmount,
                              usdcAmount |-> params.usdcAmount,
                              bondsSent |-> TRUE, usdcReceived |-> TRUE] >>
                     /\ lastCall'.submitted[1].outcome = "committed"
                ELSE lastCall'.ret = <<>>)]_vars

\* One settlement returned its result and a later one failed and returned
\* nothing: the investor holds bonds from the first.
C10_Witness ==
  /\ LastIs("executeDvP") /\ ~lastCall.ok
  /\ lastCall.ret = <<>>
  /\ accounts[BondAccountOf(Investor)].amount = MaxAmount

\* The last submission of the call the step belongs to.
LastSubmission == lastCall'.submitted[Len(lastCall'.submitted)]

\* C11: an asset created by createBondToken has the issuer as mint authority
\* and the settlement agent as freeze authority and as metadata update
\* authority; a freeze or thaw of one of its holding accounts signed by the
\* issuer or by the account's owner fails, and every step that changes a
\* holding account's frozen flag commits a submission signed by the
\* settlement agent.
C11_AgentAloneGates ==
  [][/\ mints'[BondMint].exists =>
          /\ mints'[BondMint].mintAuthority = Issuer
          /\ mints'[BondMint].freezeAuthority = settlementAgent
          /\ mints'[BondMint].updateAuthority = settlementAgent
     /\ StepOf("gatingBy") =>
          \A who \in Parties, kind \in {"thawAccount", "freezeAccount"},
             p \in Parties :
            StepFrom(who # settlementAgent, gatingBy(who, kind, p),
                     ~lastCall'.ok /\ accounts' = accounts)
     /\ \A a \in Addr :
          accounts[a].exists /\ accounts'[a].frozen # accounts[a].frozen =>
            /\ lastCall'.submitted # <<>>
            /\ LastSubmission.outcome = "committed"
            /\ settlementAgent \in LastSubmission.signers]_vars

\* The ledger rejected the issuer's own thaw of its frozen bond account.
C11_Witness ==
  /\ LastIs("gatingBy") /\ LastRejected
  /\ lastCall.submitted[1].types = <<"thawAccount">>
  /\ lastCall.submitted[1].signers = {Issuer}
  /\ Frozen(BondAccountOf(Issuer))
  /\ mints[BondMint].freezeAuthority = settlementAgent

\* C12: after a successful createBondToken the asset's stored name and
\* symbol are the configuration's and its default account state is frozen;
\* every holding account created for the asset afterwards starts frozen.
C12_NameSymbolAndFrozenDefault ==
  [][/\ StepOf("createBondToken") =>
          \A config \in BondTokenConfigs :
            StepFrom(TRUE, createBondToken(Issuer, config),
                     lastCall'.ok =>
                       /\ mints'[BondMint].name = config.name
                       /\ mints'[BondMint].symbol = config.symbol
                       /\ mints'[BondMint].defaultFrozen)
     /\ \A a \in Addr :
          a.mint = BondMint /\ ~accounts[a].exists /\ accounts'[a].exists =>
            accounts'[a].frozen]_vars

\* A holding account of an asset named "B" was created and is still frozen:
\* the whitelist call that created it lost its thaw.
C12_Witness ==
  /\ LastIs("whitelist") /\ ~lastCall.ok
  /\ Len(lastCall.submitted) = 2
  /\ lastCall.submitted[1].types = <<"createAssociatedAccount">>
  /\ lastCall.submitted[1].outcome = "committed"
  /\ mints[BondMint].name = <<"B">>
  /\ mints[BondMint].symbol = <<"C", "P">>
  /\ \E p \in Parties : Frozen(BondAccountOf(p))

CreationPrefix ==
  <<"createAccount", "initializeMetadataPointer",
    "initializeDefaultAccountState", "initializeMint", "initializeMetadata">>

\* C13: createBondToken is all-or-nothing.  It submits at most one
\* transaction, which holds the account allocation, the metadata-pointer,
\* default-state, mint and metadata initialization and every field write; when
\* it fails no asset record exists at the new address, nothing was paid and
\* no address is returned; when it succeeds the asset is fully initialized.
C13_CreateBondTokenAllOrNothing ==
  [][StepOf("createBondToken") =>
       /\ Len(lastCall'.submitted) <= 1
       /\ Len(lastCall'.submitted) = 1 =>
            LET types == lastCall'.submitted[1].types IN
            /\ Len(types) = Len(CreationPrefix)
                              + Len(lastCall'.submitted[1].fields)
            /\ SubSeq(types, 1, Len(CreationPrefix)) = CreationPrefix
            /\ \A i \in Len(CreationPrefix) + 1 .. Len(types) :
                 types[i] = "updateField"
       /\ IF lastCall'.ok
          THEN /\ lastCall'.ret = <<BondMint>>
               /\ mints'[BondMint].exists /\ mints'[BondMint].hasMetadata
          ELSE /\ lastCall'.ret = <<>>
               /\ mints'[BondMint] = NoMint
               /\ lamports' = lamports]_vars

\* The ledger rejected createBondToken for an issuer without funds, and no
\* asset record exists.
C13_Witness ==
  /\ LastIs("createBondToken") /\ LastRejected
  /\ lamports[Issuer] = 0
  /\ mints[BondMint] = NoMint

\* baseLength + metadataLength + overheadConstant for a configuration
FundedSize(config) ==
  getMintLen({"DefaultAccountState", "MetadataPointer"})
    + packLength(metadataOf(BondMint, config)) + TYPE_SIZE + LENGTH_SIZE

\* Bytes counted in metadataLength for fields that are not written: the
\* length prefixes and the key of an empty isin.
SkippedBytes(config) ==
  IF OrEmpty(config.isin) = <<>> THEN 4 + Len(FieldIsin) + 4 ELSE 0

\* C14: for every configuration, a createBondToken of an issuer who can pay,
\* whose rent query is answered and whose submission reaches the ledger,
\* succeeds: no metadata write fails for insufficient balance.  The asset
\* account holds the rent-exempt minimum for baseLength + metadataLength +
\* overheadConstant bytes; its final size is that size less the bytes counted
\* for skipped empty fields, so the funded size is at least the final size.
C14_FundedForFinalSize ==
  [][StepOf("createBondToken") =>
       \A config \in BondTokenConfigs :
         StepFrom(lamports[Issuer] > 0,
                  createBondTokenOn(Issuer, config, TRUE, TRUE),
                  /\ lastCall'.ok
                  /\ mints'[BondMint].lamports =
                       getMinimumBalanceForRentExemption(FundedSize(config))
                  /\ mints'[BondMint].space =
                       FundedSize(config) - SkippedBytes(config)
                  /\ mints'[BondMint].space <= FundedSize(config)
                  /\ mints'[BondMint].space >
                       getMintLen({"DefaultAccountState", "MetadataPointer"}))]_vars

\* An asset was created whose isin was skipped: its account is funded for
\* more than its final size.
C14_Witness ==
  /\ LastIs("createBondToken") /\ lastCall.ok
  /\ \A i \in 1..Len(mints[BondMint].additionalMetadata) :
       mints[BondMint].additionalMetadata[i][1] # FieldIsin
  /\ mints[BondMint].lamports >
       getMinimumBalanceForRentExemption(mints[BondMint].space)

\* C15: in a call of createBondToken, removeFromWhitelist, delegateAuthority
\* or executeDvP the transaction is submitted at most once; the call succeeds
\* exactly when that one submission is committed, and a call whose query or
\* submission failed has ended with the error, having submitted nothing
\* further.
C15_NoRetry ==
  lastCall.op \in {"createBondToken", "removeFromWhitelist",
                   "delegateAuthority", "executeDvP"} =>
    /\ lastCall.done
    /\ Len(lastCall.submitted) <= 1
    /\ lastCall.ok <=>
         /\ Len(lastCall.submitted) = 1
         /\ lastCall.submitted[1].outcome = "committed"
    /\ ~lastCall.ok => lastCall.ret = <<>>

\* A delegateAuthority whose one submission was lost has failed.
C15_Witness ==
  /\ LastIs("delegateAuthority") /\ ~lastCall.ok
  /\ Len(lastCall.submitted) = 1
  /\ lastCall.submitted[1].outcome = "lost"

\* sub is seq with some of its elements left out, the order kept.
RECURSIVE IsSubsequence(_, _)
IsSubsequence(sub, seq) ==
  IF sub = <<>> THEN TRUE
  ELSE IF seq = <<>> THEN FALSE
  ELSE IF Head(sub) = Head(seq) THEN IsSubsequence(Tail(sub), Tail(seq))
  ELSE IsSubsequence(sub, Tail(seq))

\* C16: the transaction createBondToken submits lists, for every
\* configuration, (1) account allocation, (2) metadata-pointer
\* initialization, (3) default-account-state initialization, (4) mint
\* initialization, (5) metadata initialization, (6) the field writes, in the
\* order couponRate, maturityDate, isin.
C16_DirectiveOrder ==
  LastIs("createBondToken") /\ lastCall.submitted # <<>> =>
    LET types == lastCall.submitted[1].types
        fields == lastCall.submitted[1].fields
    IN /\ Len(types) = 5 + Len(fields)
       /\ types[1] = "createAccount"
       /\ types[2] = "initializeMetadataPointer"
       /\ types[3] = "initializeDefaultAccountState"
       /\ types[4] = "initializeMint"
       /\ types[5] = "initializeMetadata"
       /\ \A i \in 6..Len(types) : types[i] = "updateField"
       /\ IsSubsequence(fields,
                        <<FieldCouponRate, FieldMaturityDate, FieldIsin>>)

\* A committed creation that wrote all three fields.
C16_Witness ==
  /\ LastIs("createBondToken") /\ lastCall.ok
  /\ lastCall.submitted[1].fields =
       <<FieldCouponRate, FieldMaturityDate, FieldIsin>>

\* The open attributes of a configuration that have a non-empty value:
\* couponRate and maturityDate always, isin when given and not "".
ExpectedFields(config) ==
  <<FieldCouponRate, FieldMaturityDate>>
    \o (IF config.isin = <<>> \/ config.isin = << <<>> >>
        THEN <<>> ELSE <<FieldIsin>>)

FieldKeys(pairs) == [i \in 1..Len(pairs) |-> pairs[i][1]]

\* C17: the transaction of createBondToken has exactly one field write per
\* open attribute with a non-empty value and none for an empty one; with isin
\* absent or "" there is no isin write and the created asset has no isin
\* field, and no field of the asset holds an empty text.
C17_EmptyFieldsOmitted ==
  [][StepOf("createBondToken") /\ lastCall'.submitted # <<>> =>
       \A config \in BondTokenConfigs :
         StepFrom(TRUE,
                  \E net \in BOOLEAN :
                    createBondTokenOn(Issuer, config, TRUE, net),
                  /\ lastCall'.submitted[1].fields = ExpectedFields(config)
                  /\ lastCall'.ok =>
                       /\ FieldKeys(mints'[BondMint].additionalMetadata)
                            = ExpectedFields(config)
                       /\ \A i \in 1..Len(mints'[BondMint].additionalMetadata) :
                            /\ mints'[BondMint].additionalMetadata[i][2] # <<>>
                            /\ mints'[BondMint].additionalMetadata[i][1]
                                 = FieldIsin =>
                                 mints'[BondMint].additionalMetadata[i]
                                   = <<FieldIsin, config.isin[1]>>)]_vars

\* An asset was created with a coupon rate of 0 and without isin: it has the
\* couponRate field "0" and the maturityDate field, and no other.
C17_Witness ==
  /\ LastIs("createBondToken") /\ lastCall.ok
  /\ lastCall.submitted[1].fields = <<FieldCouponRate, FieldMaturityDate>>
  /\ Len(mints[BondMint].additionalMetadata) = 2
  /\ mints[BondMint].additionalMetadata[1] = <<FieldCouponRate, <<"0">> >>

\* C18: delegateAuthority submits, without any read before it, exactly one
\* transaction holding one approval signed by the owner alone; when it is
\* confirmed the account's delegate is the settlement agent and its ceiling is
\* exactly amount * 10^decimals, whatever ceiling was in force before.
C18_DelegationSetsCeiling ==
  [][StepOf("delegateAuthority") =>
       \A owner \in Parties, amount \in 0..MaxAmount :
         \A decimals \in DelegateDecimals(DelegatedAccount(owner).mint) :
           StepFrom(TRUE,
                    delegateAuthority(owner, DelegatedAccount(owner), amount,
                                      decimals, DelegatedAccount(owner).program),
                    /\ Len(lastCall'.submitted) = 1
                    /\ lastCall'.submitted[1].types = <<"approve">>
                    /\ lastCall'.submitted[1].authorities = {owner}
                    /\ lastCall'.submitted[1].signers = {owner}
                    /\ lastCall'.ok =>
                         /\ accounts'[DelegatedAccount(owner)].delegate
                              = settlementAgent
                         /\ accounts'[DelegatedAccount(owner)].delegated
                              = amount * Pow10(decimals))]_vars

\* A confirmed delegation on the investor's currency account found a ceiling
\* in force and left a smaller one: the new ceiling replaced the old one.
C18_Witness ==
  /\ LastIs("delegateAuthority") /\ lastCall.ok
  /\ DelegatedCeiling(DelegatedAccount(Investor)) = UsdcLegScale
  /\ lastCall.before = 2 * UsdcLegScale

\* The canonical derived address of (mint, owner) under a token program,
\* written out: nothing of the ledger enters it.
DerivedAddress(mint, owner, programId) ==
  [mint |-> mint, owner |-> owner, program |-> programId]

\* C19: the transaction executeDvP builds holds exactly two transfer
\* directives in this order: bondAmount base units, expected precision 0, from
\* the issuer's to the investor's bond account; then usdcAmount * 10^6 base
\* units, expected precision 6, from the investor's to the issuer's currency
\* account; the four accounts are the derived addresses of the (mint, owner)
\* pairs, and the transaction is built and submitted whatever the ledger holds.
C19_TwoTransfersInOrder ==
  [][StepOf("executeDvP") =>
       \A params \in DvPParams :
         StepFrom(TRUE,
                  executeDvP(params),
                  /\ Len(lastCall'.submitted) = 1
                  /\ lastCall'.submitted[1].types
                       = <<"transferChecked", "transferChecked">>
                  /\ Len(executeDvPSubmissions(params)) = 1
                  /\ executeDvPSubmissions(params)[1].tx =
                       << [type |-> "transferChecked",
                           program |-> TOKEN_2022_PROGRAM_ID,
                           source |-> DerivedAddress(params.bondMint,
                                        params.issuer, TOKEN_2022_PROGRAM_ID),
                           mint |-> params.bondMint,
                           destination |-> DerivedAddress(params.bondMint,
                                        params.investor, TOKEN_2022_PROGRAM_ID),
                           authority |-> settlementAgent,
                           amount |-> params.bondAmount,
                           decimals |-> 0],
                          [type |-> "transferChecked",
                           program |-> TOKEN_PROGRAM_ID,
                           source |-> DerivedAddress(params.usdcMint,
                                        params.investor, TOKEN_PROGRAM_ID),
                           mint |-> params.usdcMint,
                           destination |-> DerivedAddress(params.usdcMint,
                                        params.issuer, TOKEN_PROGRAM_ID),
                           authority |-> settlementAgent,
                           amount |-> params.usdcAmount * Pow10(6),
                           decimals |-> 6] >>)]_vars

\* A settlement of 1 bond for 2 currency units was confirmed: the investor's
\* bond account holds the bond and the issuer's currency account 2 * 10^6
\* base units.
C19_Witness ==
  /\ LastIs("executeDvP") /\ lastCall.ok
  /\ lastCall.ret[1].bondAmount = 1 /\ lastCall.ret[1].usdcAmount = 2
  /\ accounts[DerivedAddress(BondMint, Investor, TOKEN_2022_PROGRAM_ID)].amount = 1
  /\ accounts[DerivedAddress(UsdcMint, Issuer, TOKEN_PROGRAM_ID)].amount
       = 2 * Pow10(6)

\* C20: the expected precisions of the two legs are the constants 0 and 6
\* and not the assets' own: once the bond exists with decimals other than 0,
\* or when the currency's precision is not 6, every executeDvP call fails, its
\* transaction is never committed, and no holding account changes, whatever
\* the whitelisting, balances and delegations are.
C20_PrecisionMismatchFailsAll ==
  [][/\ StepOf("executeDvP")
     /\ \/ mints[BondMint].exists /\ mints[BondMint].decimals # 0
        \/ mints[UsdcMint].decimals # 6
     => /\ ~lastCall'.ok
        /\ lastCall'.ret = <<>>
        /\ \A i \in 1..Len(lastCall'.submitted) :
             lastCall'.submitted[i].outcome # "committed"
        /\ accounts' = accounts]_vars

\* An executeDvP call on a bond of precision 1 was rejected by the ledger
\* although the currency has precision 6, both bond accounts are thawed, and
\* the issuer's bonds and the investor's currency are held and delegated up
\* to the largest quantity a call can name.
C20_Witness ==
  /\ LastIs("executeDvP") /\ LastRejected
  /\ mints[BondMint].exists /\ mints[BondMint].decimals = 1
  /\ mints[UsdcMint].decimals = 6
  /\ \A p \in Parties :
       Thawed(DerivedAddress(BondMint, p, TOKEN_2022_PROGRAM_ID))
  /\ accounts[DelegatedAccount(Issuer)].amount = MaxAmount
  /\ DelegatedCeiling(DelegatedAccount(Issuer)) = MaxAmount
  /\ accounts[DelegatedAccount(Investor)].amount = MaxAmount * UsdcLegScale
  /\ DelegatedCeiling(DelegatedAccount(Investor)) = MaxAmount * UsdcLegScale

\* C21: whitelist submits the account creation and the thaw separately, one
\* directive each.  When the creation has committed and the call then ends
\* with an error, the thaw was submitted and failed, nothing is returned, and
\* the holding account exists and is frozen.  A whitelist call for the same
\* participant directly after that reads the account as frozen and submits the
\* thaw alone; when the thaw commits the call returns the account's address
\* and the account is thawed.
C21_FailedThawLeavesFrozenAccount ==
  [][StepOf("whitelist") /\ lastCall'.done /\ wl.pc = "got" =>
       /\ \A i \in 1..Len(lastCall'.submitted) :
            Len(lastCall'.submitted[i].types) = 1
       /\ wl.submitted # <<>> /\ wl.submitted[1].outcome = "committed" =>
            /\ Len(lastCall'.submitted) = 2
            /\ lastCall'.submitted[1].types = <<"createAssociatedAccount">>
            /\ lastCall'.submitted[2].types = <<"thawAccount">>
            /\ ~lastCall'.ok =>
                 /\ lastCall'.submitted[2].outcome # "committed"
                 /\ lastCall'.ret = <<>>
                 /\ accounts'[WlAddress(wl)].exists
                 /\ accounts'[WlAddress(wl)].frozen
       /\ wl.retry =>
            /\ wl.isFrozen
            /\ Len(lastCall'.submitted) = 1
            /\ lastCall'.submitted[1].types = <<"thawAccount">>
            /\ lastCall'.ok <=> lastCall'.submitted[1].outcome = "committed"
            /\ lastCall'.ok =>
                 /\ lastCall'.ret = <<WlAddress(wl)>>
                 /\ accounts'[WlAddress(wl)].exists
                 /\ ~accounts'[WlAddress(wl)].frozen]_vars

\* A whitelist call made directly after one that created the account and
\* failed at its thaw has thawed the account and returned its address.
C21_Witness ==
  /\ LastIs("whitelist") /\ lastCall.ok /\ lastCall.retry
  /\ lastCall.submitted[1].types = <<"thawAccount">>
  /\ lastCall.submitted[1].outcome = "committed"
  /\ \E p \in Parties :
       /\ lastCall.ret = <<BondAccountOf(p)>>
       /\ Thawed(BondAccountOf(p))

EngineOperations ==
  {"createBondToken", "whitelist", "removeFromWhitelist", "delegateAuthority",
   "executeDvP"}

Balances == [a \in Addr |-> accounts[a].amount]

\* C22: no step of an engine operation, successful or failing, creates or
\* destroys value: the sum of the bond balances and the sum of the currency
\* balances over the holding accounts are unchanged, no balance is negative,
\* and a balance changes only in the step of an executeDvP that is confirmed.
C22_Conservation ==
  [][lastCall'.op \in EngineOperations =>
       /\ Supply(BondMint)' = Supply(BondMint)
       /\ Supply(UsdcMint)' = Supply(UsdcMint)
       /\ \A a \in Addr : accounts'[a].amount >= 0
       /\ Balances' # Balances =>
            lastCall'.op = "executeDvP" /\ lastCall'.ok]_vars

\* A confirmed settlement has moved one bond and some currency between the
\* parties, and every unit issued is still held by one of them.
C22_Witness ==
  /\ LastIs("executeDvP") /\ lastCall.ok
  /\ accounts[BondAccountOf(Investor)].amount = 1
  /\ accounts[BondAccountOf(Issuer)].amount = MaxAmount - 1
  /\ accounts[DelegatedAccount(Investor)].amount < MaxAmount * UsdcLegScale
  /\ Supply(UsdcMint) = MaxAmount * UsdcLegScale

\* C23: under every interleaving of one whitelist call with
\* removeFromWhitelist calls of another caller on the same holding account, a
\* whitelist call that returns without error returns with the account
\* existing and thawed, also when it read the account as not frozen and
\* issued no thaw.
C23_ReturnedWhitelistIsThawed ==
  [][StepOf("whitelist") /\ lastCall'.done /\ lastCall'.ok =>
       /\ accounts'[WlAddress(wl)].exists
       /\ ~accounts'[WlAddress(wl)].frozen]_vars

====
